---- MODULE Spec2Model ----
(***************************************************************************)
(* Crown-role rotation of the bot: scheduleCrown installs a recurring job  *)
(* per guild from the guild's settings, and each fire of a job runs        *)
(* rotateCrown, which strips the crown role from its holders, grants it to *)
(* the top user of the leaderboard, clears the guild's points and posts a  *)
(* message.  The model follows the JavaScript run-to-completion semantics: *)
(* one action is one event-loop turn (a timer fire, or the settling of one *)
(* pending gateway call) together with the promise continuations that run  *)
(* in the same turn.                                                       *)
(***************************************************************************)
EXTENDS Integers, Sequences, FiniteSets, TLC

\* ---------------------------------------------------------------- bounds
NumMembers == 2        \* members of each guild are 1..NumMembers
MaxJobs == 2           \* scheduleJob calls per guild that the model follows
MaxBoard == 1          \* longest leaderboard the store returns

\* ------------------------------------------------------------- universes
Guilds == {"g1", "g2"}
Members == 1..NumMembers
Gone == 0                        \* a user id that guild.members no longer has
Users == Members \cup {Gone}

NoId == "none"                   \* a settings column that is NULL
GuildRoles == {"r1"}             \* guild.roles
RoleIds == {NoId, "r1", "r0"}    \* crown_role_id: NULL, a live role, a deleted role
NoRole == "undefined"
GuildChannels == {"c1"}          \* guild.channels
ChannelIds == {NoId, "c1", "c0"} \* default_channel_id: NULL, live, deleted
NoCron == "none"
Crons == {NoCron, "0 0 * * 5"}   \* crown_schedule: NULL or an expression
NoMember == -1                   \* guild.members.get of an unknown id
NoCall == [guild |-> "none"]

Leaderboards == UNION {[1..n -> Users] : n \in 0..MaxBoard}

VARIABLES
  jobs,      \* jobs[g]: the jobs node-schedule keeps active for guild g, oldest first
  job,       \* job[g]: guild.job, index into jobs[g]; 0 while the field is unset
  call,      \* the latest scheduleCrown call: its guild and its locals
  holders,   \* holders[g]: the members of g that have the crown role
  cyc        \* cyc[g]: the rotateCrown call of g's latest fire

vars == <<jobs, job, call, holders, cyc>>

\* The record of a guild that has not fired yet.
IdleCycle ==
  [ pc |-> "idle", role |-> NoRole, channelId |-> NoId, channel |-> FALSE,
    board |-> <<>>, winner |-> NoMember, quit |-> FALSE,
    startHolders |-> {}, task |-> [m \in Members |-> "none"],
    removeCalls |-> {}, removeFailed |-> {},
    addCalls |-> 0, add |-> "none", clearCalls |-> 0,
    stripNotices |-> 0, grantNotices |-> 0,
    template |-> "unread", grantMsgs |-> 0, msg |-> "none", successLogs |-> 0 ]

Init ==
  /\ jobs = [g \in Guilds |-> <<>>]
  /\ job = [g \in Guilds |-> 0]
  /\ call = NoCall
  /\ holders = [g \in Guilds |-> {}]
  /\ cyc = [g \in Guilds |-> IdleCycle]

\* Nothing of the rotateCrown call c is still pending.
Quiescent(c) ==
  /\ c.pc \in {"idle", "resolved", "rejected"}
  /\ \A m \in Members : c.task[m] \notin {"removing", "sending"}
  /\ c.msg # "pending"

\* ------------------------------------------------------- scheduleCrown
\* guild.roles.get(id), guarded by `if (id)`
ResolveRole(id) == IF id # NoId /\ id \in GuildRoles THEN id ELSE NoRole

\* Mutant of Eligible: the role lookup is not tested.
EligibleNoRole(enabled, crownRole, cron) == enabled /\ cron # NoCron

\* The test `enabled && crownRole && cron`
Eligible(enabled, crownRole, cron) ==
  enabled /\ crownRole # NoRole /\ cron # NoCron

\* Mutant of ScheduleCrown: rescheduling drops the rotateCrown call of the
\* guild that is in flight.
ScheduleCrownResets(g, enabled, id, cron) ==
  LET crownRole == ResolveRole(id) IN
  /\ call' = [guild |-> g, threw |-> FALSE, inFlight |-> ~Quiescent(cyc[g]),
               enabled |-> enabled, crownRole |-> crownRole, cron |-> cron]
  /\ IF Eligible(enabled, crownRole, cron)
       THEN /\ Len(jobs[g]) < MaxJobs
            /\ jobs' = [jobs EXCEPT ![g] = Append(@, [role |-> crownRole])]
            /\ job' = [job EXCEPT ![g] = Len(jobs[g]) + 1]
       ELSE UNCHANGED <<jobs, job>>
  /\ cyc' = [cyc EXCEPT ![g] = IdleCycle]
  /\ UNCHANGED holders

\* Mutant of ScheduleCrown: the job is kept in one field shared by all
\* guilds (client.job), so scheduling one guild replaces every guild's job.
ScheduleCrownShared(g, enabled, id, cron) ==
  LET crownRole == ResolveRole(id) IN
  /\ call' = [guild |-> g, threw |-> FALSE, inFlight |-> ~Quiescent(cyc[g]),
               enabled |-> enabled, crownRole |-> crownRole, cron |-> cron]
  /\ IF Eligible(enabled, crownRole, cron)
       THEN /\ Len(jobs[g]) < MaxJobs
            /\ jobs' = [h \in Guilds |-> <<[role |-> crownRole]>>]
            /\ job' = [h \in Guilds |-> 1]
       ELSE UNCHANGED <<jobs, job>>
  /\ UNCHANGED <<holders, cyc>>

\* scheduleCrown(client, guild) with the three settings it reads
ScheduleCrown(g, enabled, id, cron) ==
  LET crownRole == ResolveRole(id) IN
  /\ call' = [guild |-> g, threw |-> FALSE, inFlight |-> ~Quiescent(cyc[g]),
               enabled |-> enabled, crownRole |-> crownRole, cron |-> cron]
  /\ IF Eligible(enabled, crownRole, cron)
       THEN /\ Len(jobs[g]) < MaxJobs
            /\ jobs' = [jobs EXCEPT ![g] = Append(@, [role |-> crownRole])]
            /\ job' = [job EXCEPT ![g] = Len(jobs[g]) + 1]
       ELSE UNCHANGED <<jobs, job>>
  /\ UNCHANGED <<holders, cyc>>

\* Mutant of ScheduleCrownThrows: the failure handler cancels guild.job.
ScheduleCrownThrowsCancels(g) ==
  /\ call' = [guild |-> g, threw |-> TRUE, inFlight |-> ~Quiescent(cyc[g]),
               enabled |-> FALSE, crownRole |-> NoRole, cron |-> NoCron]
  /\ jobs' = [jobs EXCEPT ![g] = <<>>]
  /\ job' = [job EXCEPT ![g] = 0]
  /\ UNCHANGED <<holders, cyc>>

\* scheduleCrown(client, guild) when a settings read of lines 10-14 throws:
\* the exception leaves the function before line 15, its locals unassigned.
ScheduleCrownThrows(g) ==
  /\ call' = [guild |-> g, threw |-> TRUE, inFlight |-> ~Quiescent(cyc[g]),
               enabled |-> FALSE, crownRole |-> NoRole, cron |-> NoCron]
  /\ UNCHANGED <<jobs, job, holders, cyc>>

\* ---------------------------------------------------------- rotateCrown
\* Mutant of ResolveChannel: any stored id counts as a channel.
ResolveChannelAnyId(id) == id # NoId

\* guild.channels.get(id), guarded by `if (id)`: is defaultChannel set?
ResolveChannel(id) == id # NoId /\ id \in GuildChannels

\* guild.members.get(leaderboard[0].user_id)
ResolveWinner(board) == IF board[1] \in Members THEN board[1] ELSE NoMember

\* Mutant of Finish: the crown message is never sent.
FinishSilent(c, tmpl) ==
  LET d == [c EXCEPT !.template = IF tmpl THEN "set" ELSE "unset"]
  IN IF c.winner = NoMember
       THEN [d EXCEPT !.pc = "rejected"]
       ELSE [d EXCEPT !.successLogs = @ + 1, !.pc = "resolved"]

\* Lines 43-52: crown message, then the success log line, which reads
\* winner.displayName and so throws when winner is undefined.
Finish(c, tmpl) ==
  LET sent == c.channel /\ tmpl
      d == [c EXCEPT !.template = IF tmpl THEN "set" ELSE "unset",
                     !.grantMsgs = IF sent THEN @ + 1 ELSE @,
                     !.msg = IF sent THEN "pending" ELSE @]
  IN IF c.winner = NoMember
       THEN [d EXCEPT !.pc = "rejected"]
       ELSE [d EXCEPT !.successLogs = @ + 1, !.pc = "resolved"]

\* Mutant of GrantFailed: the points are cleared on the failure path too.
GrantFailedClears(c, tmpl) ==
  LET d == [c EXCEPT !.add = "failed", !.clearCalls = @ + 1]
  IN IF c.channel
       THEN [d EXCEPT !.grantNotices = @ + 1, !.pc = "notify"]
       ELSE Finish(d, tmpl)

\* Lines 36-41: the catch block of the grant
GrantFailed(c, tmpl) ==
  LET d == [c EXCEPT !.add = "failed"]
  IN IF c.channel
       THEN [d EXCEPT !.grantNotices = @ + 1, !.pc = "notify"]
       ELSE Finish(d, tmpl)

\* Lines 29-33, run once Promise.all has resolved: the quit test and the
\* call of winner.addRole, which throws inside the try when winner is undefined.
AfterStrip(c, tmpl) ==
  IF c.quit THEN [c EXCEPT !.pc = "resolved"]
  ELSE IF c.winner = NoMember THEN GrantFailed(c, tmpl)
  ELSE [c EXCEPT !.pc = "grant", !.addCalls = @ + 1, !.add = "pending"]

\* Mutant of StripSettled: Promise.race, the first resolved callback wins.
StripSettledAny(c) == \E m \in Members : c.task[m] \in {"none", "removed", "quit", "sent"}

\* Every callback of the map has returned a resolved promise.
StripSettled(c) == \A m \in Members : c.task[m] \in {"none", "removed", "quit", "sent"}

\* Promise.all of the strip callbacks: continue when the last one resolves.
Join(c, tmpl) ==
  IF c.pc = "strip" /\ StripSettled(c) THEN AfterStrip(c, tmpl) ELSE c

\* Mutant of Begin: an empty leaderboard is read as "winner undefined"
\* (leaderboard[0]?.user_id) and the strip phase starts all the same.
BeginUnguarded(c0, hs, board, tmpl) ==
  Join([c0 EXCEPT !.pc = "strip",
                  !.winner = IF board = <<>> THEN NoMember ELSE ResolveWinner(board),
                  !.removeCalls = hs,
                  !.task = [m \in Members |->
                              IF m \in hs THEN "removing" ELSE "none"]],
       tmpl)

\* Mutant of Begin: the callback does not test member.roles.has and calls
\* removeRole for every member.
BeginStripsAll(c0, hs, board, tmpl) ==
  IF board = <<>>
    THEN [c0 EXCEPT !.pc = "rejected"]
    ELSE [c0 EXCEPT !.pc = "strip",
                    !.winner = ResolveWinner(board),
                    !.removeCalls = Members,
                    !.task = [m \in Members |-> "removing"]]

\* Lines 10-15 of a call whose locals so far are c0, with hs the members
\* that have the role: leaderboard[0].user_id throws on an empty leaderboard;
\* otherwise every callback of the map runs up to its first await.
Begin(c0, hs, board, tmpl) ==
  IF board = <<>>
    THEN [c0 EXCEPT !.pc = "rejected"]
    ELSE Join([c0 EXCEPT !.pc = "strip",
                         !.winner = ResolveWinner(board),
                         !.removeCalls = hs,
                         !.task = [m \in Members |->
                                     IF m \in hs THEN "removing" ELSE "none"]],
              tmpl)

\* Job j of guild g fires and calls rotateCrown(client, guild, crownRole).
\* cyc[g] holds one call, so a fire is followed once the guild's previous
\* call has nothing pending (cadences are days, a cycle takes seconds).
Fire(g, j, chanId, board, tmpl) ==
  /\ j \in 1..Len(jobs[g])
  /\ Quiescent(cyc[g])
  /\ LET c0 == [IdleCycle EXCEPT !.role = jobs[g][j].role,
                                 !.channelId = chanId,
                                 !.channel = ResolveChannel(chanId),
                                 !.board = board,
                                 !.startHolders = holders[g]]
     IN cyc' = [cyc EXCEPT ![g] = Begin(c0, holders[g], board, tmpl)]
  /\ UNCHANGED <<jobs, job, call, holders>>

\* member.removeRole(crownRole) of member m settles: lines 17-25.
RemoveRoleSettles(g, m, ok, tmpl) ==
  LET c == cyc[g] IN
  /\ c.task[m] = "removing"
  /\ IF ok
       THEN /\ holders' = [holders EXCEPT ![g] = @ \ {m}]
            /\ cyc' = [cyc EXCEPT ![g] = Join([c EXCEPT !.task[m] = "removed"], tmpl)]
       ELSE /\ UNCHANGED holders
            /\ LET d == [c EXCEPT !.removeFailed = @ \cup {m}] IN
               IF c.channel
                 THEN cyc' = [cyc EXCEPT ![g] =
                                [d EXCEPT !.task[m] = "sending", !.stripNotices = @ + 1]]
                 ELSE cyc' = [cyc EXCEPT ![g] =
                                Join([d EXCEPT !.task[m] = "quit", !.quit = TRUE], tmpl)]
  /\ UNCHANGED <<jobs, job, call>>

\* The defaultChannel.send returned from a strip callback settles: its
\* rejection rejects Promise.all and with it the rotateCrown promise.
StripNoticeSettles(g, m, ok, tmpl) ==
  LET c == cyc[g] IN
  /\ c.task[m] = "sending"
  /\ IF ok
       THEN cyc' = [cyc EXCEPT ![g] = Join([c EXCEPT !.task[m] = "sent"], tmpl)]
       ELSE cyc' = [cyc EXCEPT ![g] =
                      [c EXCEPT !.task[m] = "sendFailed",
                                !.pc = IF @ = "strip" THEN "rejected" ELSE @]]
  /\ UNCHANGED <<jobs, job, call, holders>>

\* winner.addRole(crownRole) settles: lines 33-41, then 43-52.
AddRoleSettles(g, ok, tmpl) ==
  LET c == cyc[g] IN
  /\ c.pc = "grant"
  /\ IF ok
       THEN /\ holders' = [holders EXCEPT ![g] = @ \cup {c.winner}]
            /\ cyc' = [cyc EXCEPT ![g] =
                         Finish([c EXCEPT !.add = "ok", !.clearCalls = @ + 1], tmpl)]
       ELSE /\ UNCHANGED holders
            /\ cyc' = [cyc EXCEPT ![g] = GrantFailed(c, tmpl)]
  /\ UNCHANGED <<jobs, job, call>>

\* The defaultChannel.send returned from the catch of the grant settles.
GrantNoticeSettles(g, ok) ==
  /\ cyc[g].pc = "notify"
  /\ cyc' = [cyc EXCEPT ![g].pc = IF ok THEN "resolved" ELSE "rejected"]
  /\ UNCHANGED <<jobs, job, call, holders>>

\* The crown message sent at line 50 settles; nobody holds its promise.
CrownMessageSettles(g, ok) ==
  /\ cyc[g].msg = "pending"
  /\ cyc' = [cyc EXCEPT ![g].msg = IF ok THEN "ok" ELSE "failed"]
  /\ UNCHANGED <<jobs, job, call, holders>>

\* -------------------------------------------------------- specification
\* The gateway calls of guild g that can settle in the next turn, with T
\* the values selectCrownMessage can be read as (TRUE: a template is set).
SettleWith(g, T) ==
  \/ \E m \in Members, ok \in BOOLEAN, t \in T : RemoveRoleSettles(g, m, ok, t)
  \/ \E m \in Members, ok \in BOOLEAN, t \in T : StripNoticeSettles(g, m, ok, t)
  \/ \E ok \in BOOLEAN, t \in T : AddRoleSettles(g, ok, t)
  \/ \E ok \in BOOLEAN : GrantNoticeSettles(g, ok)
  \/ \E ok \in BOOLEAN : CrownMessageSettles(g, ok)

Settle(g) == SettleWith(g, BOOLEAN)

\* The whole program: guilds are scheduled and rescheduled while their jobs
\* fire.  The leaderboard of this specification has member 1 on top, the
\* default channel is unset or live, and a crown message is configured.
SchedBoards == {<<1>>}
SchedChannels == {NoId, "c1"}
SchedTemplates == {TRUE}

Next ==
  \/ \E g \in Guilds, e \in BOOLEAN, id \in RoleIds, cron \in Crons :
       ScheduleCrown(g, e, id, cron)
  \/ \E g \in Guilds : ScheduleCrownThrows(g)
  \/ \E g \in Guilds, j \in 1..MaxJobs, ch \in SchedChannels,
        b \in SchedBoards, t \in SchedTemplates :
       Fire(g, j, ch, b, t)
  \/ \E g \in Guilds : SettleWith(g, SchedTemplates)

Spec == Init /\ [][Next]_vars

\* The rotation alone: every guild has been scheduled once, and the job of
\* the guilds in Rotating fires under every leaderboard, membership and
\* channel setting while the other guilds stay idle.
Rotating == {"g1"}

InitRotate ==
  /\ jobs = [g \in Guilds |-> <<[role |-> "r1"]>>]
  /\ job = [g \in Guilds |-> 1]
  /\ call \in {[guild |-> g, threw |-> FALSE, inFlight |-> FALSE,
                 enabled |-> TRUE, crownRole |-> "r1",
                 cron |-> "0 0 * * 5"] : g \in Rotating}
  /\ holders \in {h \in [Guilds -> SUBSET Members] :
                    \A g \in Guilds \ Rotating : h[g] = {}}
  /\ cyc = [g \in Guilds |-> IdleCycle]

NextRotate ==
  \/ \E g \in Rotating, j \in 1..MaxJobs, ch \in ChannelIds,
        b \in Leaderboards, t \in BOOLEAN :
       Fire(g, j, ch, b, t)
  \/ \E g \in Rotating : Settle(g)

SpecRotate == InitRotate /\ [][NextRotate]_vars

\* Two rotations side by side: every guild has been scheduled once and the
\* jobs of all guilds fire, under every leaderboard, membership, channel
\* setting and gateway outcome, so that two runs of rotateCrown can be
\* compared.
InitPair ==
  /\ jobs = [g \in Guilds |-> <<[role |-> "r1"]>>]
  /\ job = [g \in Guilds |-> 1]
  /\ call = [guild |-> "g1", threw |-> FALSE, inFlight |-> FALSE,
              enabled |-> TRUE, crownRole |-> "r1", cron |-> "0 0 * * 5"]
  /\ holders \in [Guilds -> SUBSET Members]
  /\ cyc = [g \in Guilds |-> IdleCycle]

NextPair ==
  \/ \E g \in Guilds, j \in 1..MaxJobs, ch \in ChannelIds,
        b \in Leaderboards, t \in BOOLEAN :
       Fire(g, j, ch, b, t)
  \/ \E g \in Guilds : Settle(g)

SpecPair == InitPair /\ [][NextPair]_vars

\* ---------------------------------------------------------------- claims
\* The messages the call of guild g has sent so far.
Messages(c) == c.stripNotices + c.grantNotices + c.grantMsgs

\* C1: clearPoints is called only after the addRole of the same cycle has
\* succeeded: never after a failed grant, never after the strip phase has set
\* quit and ended the cycle.
C1_ClearOnlyAfterGrant ==
  \A g \in Guilds :
    LET c == cyc[g] IN
    /\ c.clearCalls <= 1
    /\ c.clearCalls = 1 => (c.addCalls = 1 /\ c.add = "ok")
    /\ c.add = "failed" => c.clearCalls = 0
    /\ c.quit => c.clearCalls = 0

\* C1 witness: a cycle that cleared the points after a successful grant,
\* with a strip failure injected before.
C1_Witness ==
  \E g \in Guilds :
    /\ cyc[g].clearCalls = 1 /\ cyc[g].add = "ok"
    /\ cyc[g].removeFailed # {}

\* C2: a cycle in which some removeRole failed issues no addRole, no
\* clearPoints and no crown message, with or without a channel.
C2_StripFailureEndsCycle ==
  \A g \in Guilds :
    cyc[g].removeFailed # {} =>
      (cyc[g].addCalls = 0 /\ cyc[g].clearCalls = 0 /\ cyc[g].grantMsgs = 0)

\* C3: at most one job of a guild is active at any instant.
C3_OneJobPerGuild == \A g \in Guilds : Len(jobs[g]) <= 1

\* C4: once scheduleCrown has found guild g ineligible, no job of g is
\* active any more.
C4_IneligibleCancels ==
  \A g \in Guilds :
    (/\ call.guild = g
     /\ ~call.threw
     /\ ~(call.enabled /\ call.crownRole \in GuildRoles /\ call.cron # NoCron))
      => jobs[g] = <<>>

\* C5: a step creates a job for guild g only as a scheduleCrown call for g
\* that read enabled = true, a role id that resolves and a schedule.
C5_JobOnlyWhenEligible ==
  [][\A g \in Guilds :
       jobs'[g] # jobs[g] =>
         /\ call'.guild = g
         /\ call'.enabled
         /\ call'.crownRole \in GuildRoles
         /\ call'.cron # NoCron
         /\ jobs'[g] = Append(jobs[g], [role |-> call'.crownRole])]_vars

\* C5 witness: a job installed by an eligible call.
C5_Witness ==
  \E g \in Guilds :
    /\ call.guild = g /\ call.enabled /\ call.crownRole \in GuildRoles
    /\ call.cron # NoCron
    /\ jobs[g] # <<>>

\* C6: a cycle that read an empty leaderboard has issued no removeRole, no
\* addRole, no clearPoints and no message, and has left the holders alone.
C6_EmptyBoardNoCalls ==
  \A g \in Guilds :
    (cyc[g].pc # "idle" /\ cyc[g].board = <<>>) =>
      /\ cyc[g].removeCalls = {}
      /\ cyc[g].addCalls = 0
      /\ cyc[g].clearCalls = 0
      /\ Messages(cyc[g]) = 0
      /\ holders[g] = cyc[g].startHolders

\* C6 witness: an empty leaderboard met while members hold the role.
C6_Witness ==
  \E g \in Guilds :
    cyc[g].pc # "idle" /\ cyc[g].board = <<>> /\ cyc[g].startHolders # {}

\* C7: a cycle whose top user is not a member issues no removeRole, no
\* addRole and no clearPoints.
C7_NonMemberNoCalls ==
  \A g \in Guilds :
    (cyc[g].board # <<>> /\ cyc[g].board[1] \notin Members) =>
      (cyc[g].removeCalls = {} /\ cyc[g].addCalls = 0 /\ cyc[g].clearCalls = 0)

\* C8: a cycle sends at most one diagnostic notice for strip failures.
C8_OneStripNotice == \A g \in Guilds : cyc[g].stripNotices <= 1

\* C9: once the addRole of a cycle has failed, the cycle has cleared no
\* points, sent no crown message and logged no success, and its grant
\* notices number one with a channel and none without.
C9_GrantFailureTerminates ==
  \A g \in Guilds :
    (cyc[g].addCalls = 1 /\ cyc[g].add = "failed") =>
      /\ cyc[g].clearCalls = 0
      /\ cyc[g].grantNotices = (IF cyc[g].channel THEN 1 ELSE 0)
      /\ cyc[g].grantMsgs = 0
      /\ cyc[g].successLogs = 0

\* C10: the promise returned by rotateCrown is never rejected.
C10_NeverRejects == \A g \in Guilds : cyc[g].pc # "rejected"

\* The role and point calls a rotateCrown call has issued.
RoleCalls(c) == <<c.removeCalls, c.addCalls, c.clearCalls>>

\* Some send of the call was rejected.
SendFailed(c) ==
  \/ \E m \in Members : c.task[m] = "sendFailed"
  \/ c.msg = "failed"
  \/ c.pc = "rejected" /\ c.grantNotices = 1

\* Two finished calls that started from the same holders and leaderboard
\* and met the same removeRole and addRole outcomes.
SameOutcomes(c, d) ==
  /\ c.pc # "idle" /\ d.pc # "idle"
  /\ Quiescent(c) /\ Quiescent(d)
  /\ c.startHolders = d.startHolders
  /\ c.board = d.board
  /\ c.removeFailed = d.removeFailed
  /\ ~(c.add = "ok" /\ d.add = "failed")
  /\ ~(c.add = "failed" /\ d.add = "ok")

\* C11: two cycles with the same channel setting and the same removeRole
\* and addRole outcomes issue the same removeRole, addRole and clearPoints
\* calls, whatever their sends did.
C11_SendFailureKeepsCalls ==
  \A g, h \in Guilds :
    (SameOutcomes(cyc[g], cyc[h]) /\ cyc[g].channelId = cyc[h].channelId)
      => RoleCalls(cyc[g]) = RoleCalls(cyc[h])

\* C12: two cycles with the same removeRole and addRole outcomes, one with
\* a channel and one without, none of whose sends failed, issue the same
\* removeRole, addRole and clearPoints calls.
C12_ChannelKeepsCalls ==
  \A g, h \in Guilds :
    (/\ SameOutcomes(cyc[g], cyc[h])
     /\ cyc[g].channel /\ ~cyc[h].channel
     /\ ~SendFailed(cyc[g]) /\ ~SendFailed(cyc[h]))
      => RoleCalls(cyc[g]) = RoleCalls(cyc[h])

\* C13: a finished cycle whose top user is a member and whose removeRole
\* calls and addRole all succeeded has called removeRole for each member
\* that held the role at the start, addRole once for the top user and
\* clearPoints once, has sent one crown message if a channel and a template
\* are configured, and leaves the winner as the only holder.
C13_HappyPath ==
  \A g \in Guilds :
    LET c == cyc[g] IN
    (/\ c.pc # "idle" /\ Quiescent(c)
     /\ c.board # <<>> /\ c.board[1] \in Members
     /\ c.removeFailed = {} /\ c.add = "ok")
      => /\ c.removeCalls = c.startHolders
         /\ \A m \in c.startHolders : c.task[m] = "removed"
         /\ c.addCalls = 1 /\ c.winner = c.board[1]
         /\ c.clearCalls = 1
         /\ (c.channel /\ c.template = "set") => c.grantMsgs = 1
         /\ holders[g] = {c.winner}

\* C13 witness: such a cycle that stripped two holders and sent the message.
C13_Witness ==
  \E g \in Guilds :
    /\ cyc[g].pc = "resolved" /\ Quiescent(cyc[g])
    /\ cyc[g].removeFailed = {} /\ cyc[g].add = "ok"
    /\ Cardinality(cyc[g].startHolders) >= 2
    /\ cyc[g].channel /\ cyc[g].template = "set" /\ cyc[g].grantMsgs = 1

\* C14: a scheduleCrown call for guild g whose settings read fails leaves
\* the jobs of g and guild.job as they were.
C14_ThrowKeepsJob ==
  [][\A g \in Guilds :
       (call' # call /\ call'.guild = g /\ call'.threw)
         => (jobs'[g] = jobs[g] /\ job'[g] = job[g])]_vars

\* C14 witness: the settings read failed for a guild that had a job, and the
\* job is still the guild's active job.
C14_Witness ==
  \E g \in Guilds :
    /\ call.guild = g /\ call.threw
    /\ jobs[g] # <<>> /\ job[g] = Len(jobs[g])

\* The operator events of a rotateCrown call: its only logger call is the
\* success line of line 52.
Events(c) == c.successLogs

\* C15: a cycle that has ended has emitted exactly one operator event, and
\* a success event only if its addRole succeeded and the points were cleared.
C15_OneEventPerCycle ==
  \A g \in Guilds :
    LET c == cyc[g] IN
    /\ c.pc \in {"resolved", "rejected"} => Events(c) = 1
    /\ c.successLogs >= 1 => (c.add = "ok" /\ c.clearCalls = 1)

\* C16: removeRole is called for every member that held the role at the
\* start, and the quit test and the addRole are reached only when none of
\* these calls is still pending.
C16_StripBarrier ==
  \A g \in Guilds :
    LET c == cyc[g] IN
    (c.pc # "idle" /\ c.board # <<>>) =>
      /\ c.removeCalls = c.startHolders
      /\ (c.pc \in {"grant", "notify", "resolved"} \/ c.add # "none")
           => \A m \in Members : c.task[m] # "removing"

\* C16 witness: two holders, one removeRole failed, and the grant was
\* reached all the same after both had settled.
C16_Witness ==
  \E g \in Guilds :
    /\ Cardinality(cyc[g].startHolders) >= 2
    /\ cyc[g].removeFailed # {} /\ cyc[g].removeFailed # cyc[g].startHolders
    /\ cyc[g].addCalls = 1

\* C17: a scheduleCrown call for guild g made while a rotateCrown call of g
\* is in flight changes nothing of that call (its role, its pending gateway
\* calls, the calls it has issued) nor the holders it works on, so every
\* step the cycle could take before it can still take after.
C17_RescheduleKeepsCycle ==
  [][\A g \in Guilds :
       (/\ call' # call \/ jobs'[g] # jobs[g]
        /\ call'.guild = g
        /\ call'.inFlight)
         => (cyc'[g] = cyc[g] /\ holders'[g] = holders[g])]_vars

\* C17 witness: guild g was rescheduled while its cycle was in flight, and
\* a cycle of g has run through strip, grant and clear.
C17_Witness ==
  \E g \in Guilds :
    /\ call.guild = g /\ call.inFlight /\ ~call.threw
    /\ Len(jobs[g]) = 2
    /\ cyc[g].pc = "resolved" /\ Quiescent(cyc[g])
    /\ cyc[g].startHolders # {} /\ cyc[g].clearCalls = 1

\* A step changes the jobs, guild.job, the role holders or the rotateCrown
\* call of guild g.
Touched(g) ==
  \/ jobs'[g] # jobs[g]
  \/ job'[g] # job[g]
  \/ holders'[g] # holders[g]
  \/ cyc'[g] # cyc[g]

\* C18: a step of guild a (a scheduleCrown call for a, a fire of a job of a,
\* a gateway call of a's cycle settling, with success or failure) changes
\* nothing of another guild b: not b's jobs, not the roles of b's members,
\* not the calls, clearPoints included, of b's cycle.
C18_GuildIsolation ==
  [][\A a, b \in Guilds :
       (a # b /\ (Touched(a) \/ (call' # call /\ call'.guild = a)))
         => ~Touched(b)]_vars

\* C18 witness: the cycles of two guilds are in flight together, one with a
\* failed removeRole, the other waiting for its addRole.
C18_Witness ==
  \E a, b \in Guilds :
    /\ a # b
    /\ ~Quiescent(cyc[a]) /\ cyc[a].removeFailed # {}
    /\ cyc[b].pc = "grant"
    /\ jobs[a] # <<>> /\ jobs[b] # <<>>

\* C19: a cycle calls removeRole only for members that held the role at its
\* start and addRole at most once and only for the top user, so a member
\* that neither held the role nor is the top user does not hold it.
C19_OnlyHoldersAndWinner ==
  \A g \in Guilds :
    LET c == cyc[g] IN
    c.pc # "idle" =>
      /\ c.removeCalls \subseteq c.startHolders
      /\ c.addCalls <= 1
      /\ c.addCalls = 1 => (c.winner \in Members /\ c.winner = c.board[1])
      /\ \A m \in Members :
           (m \notin c.startHolders /\ (c.board = <<>> \/ m # c.board[1]))
             => m \notin holders[g]

\* C19 witness: a cycle that stripped a holder and crowned the top user
\* while another member neither held the role nor was on top.
C19_Witness ==
  \E g \in Guilds, m \in Members :
    /\ cyc[g].add = "ok" /\ cyc[g].startHolders # {}
    /\ m \notin cyc[g].startHolders /\ m # cyc[g].board[1]
    /\ m \notin holders[g]

\* C20: a cycle whose default channel id is unset or does not resolve to a
\* channel of the guild sends no strip notice, no grant notice and no crown
\* message.
C20_NoChannelNoMessage ==
  \A g \in Guilds :
    (cyc[g].pc # "idle" /\ cyc[g].channelId \notin GuildChannels)
      => (Messages(cyc[g]) = 0 /\ cyc[g].msg = "none")

\* C20 witness: a cycle with a stale channel id went through a failed
\* removeRole and finished.
C20_Witness ==
  \E g \in Guilds :
    /\ cyc[g].channelId \notin GuildChannels /\ cyc[g].channelId # NoId
    /\ cyc[g].removeFailed # {} /\ Quiescent(cyc[g])

====
